---- MODULE Spec2Model ----
(***************************************************************************)
(* Chorus Cutter (src/chorus_cutter.py): the batch worker ProcessWorker,   *)
(* the row pipeline _process_single_row, the file matcher, the time parser *)
(* and the part of ChorusCutterGUI that starts and stops a run.            *)
(*                                                                         *)
(* Text is a sequence of one-character strings.  The characters used are   *)
(* the digits, the letters a b A B, and - _ space . :  (no character that  *)
(* float() reads as an exponent, "inf" or "nan").                          *)
(* A time is an integer number of ticks, TicksPerSec ticks to the second.  *)
(***************************************************************************)
EXTENDS Integers, Sequences, FiniteSets, TLC

\* ------------------------------------------------------------------ bounds
\* rows of the time table
MaxRows == 2
\* decode and write failures the environment produces in one run
MaxFaults == 1
\* audio files in a list given to the matcher
MaxFiles == 2

\* characters of a time cell drawn exhaustively
MaxTimeLen == 3

\* decimal digits of a millisecond that a time keeps
SubMsDigits == 1

\* ticks per millisecond (cut_audio works in whole milliseconds)
TicksPerMs == 10 ^ SubMsDigits
TicksPerSec == 1000 * TicksPerMs

\* ------------------------------------------------------------------- text
Digits == {"0", "1", "2", "3", "4", "5", "6", "7", "8", "9"}

\* a missing cell (pandas NaN / None)
NaN == <<"NaN">>

notna(cell) == cell # NaN

DigitVal(c) ==
    CASE c = "0" -> 0 [] c = "1" -> 1 [] c = "2" -> 2 [] c = "3" -> 3
      [] c = "4" -> 4 [] c = "5" -> 5 [] c = "6" -> 6 [] c = "7" -> 7
      [] c = "8" -> 8 [] c = "9" -> 9

DigitChar(n) ==
    CASE n = 0 -> "0" [] n = 1 -> "1" [] n = 2 -> "2" [] n = 3 -> "3"
      [] n = 4 -> "4" [] n = 5 -> "5" [] n = 6 -> "6" [] n = 7 -> "7"
      [] n = 8 -> "8" [] n = 9 -> "9"

LowerChar(c) == IF c = "A" THEN "a" ELSE IF c = "B" THEN "b" ELSE c

\* str.lower()
lower(s) == [i \in 1..Len(s) |-> LowerChar(s[i])]

RECURSIVE LStrip(_)
LStrip(s) == IF s # <<>> /\ Head(s) = " " THEN LStrip(Tail(s)) ELSE s

RECURSIVE RStrip(_)
RStrip(s) ==
    IF s # <<>> /\ s[Len(s)] = " " THEN RStrip(SubSeq(s, 1, Len(s) - 1)) ELSE s

\* str.strip()
strip(s) == RStrip(LStrip(s))

\* str.startswith(p)
startswith(s, p) == Len(p) <= Len(s) /\ SubSeq(s, 1, Len(p)) = p

\* sub in s
contains(s, sub) ==
    \E i \in 0..(Len(s) - Len(sub)) : SubSeq(s, i + 1, i + Len(sub)) = sub

\* c in s, for one character
HasChar(s, c) == \E i \in 1..Len(s) : s[i] = c

\* str.replace(c, '') for one character
RECURSIVE Remove(_, _)
Remove(s, c) ==
    IF s = <<>> THEN <<>>
    ELSE IF Head(s) = c THEN Remove(Tail(s), c)
    ELSE <<Head(s)>> \o Remove(Tail(s), c)

\* str.isdigit()
isdigit(s) == s # <<>> /\ \A i \in 1..Len(s) : s[i] \in Digits

\* the text before / after the first occurrence of character c
RECURSIVE Before(_, _)
Before(s, c) ==
    IF s = <<>> \/ Head(s) = c THEN <<>>
    ELSE <<Head(s)>> \o Before(Tail(s), c)

After(s, c) == SubSeq(s, Len(Before(s, c)) + 2, Len(s))

RECURSIVE DigitsVal(_)
DigitsVal(s) ==
    IF s = <<>> THEN 0
    ELSE DigitsVal(SubSeq(s, 1, Len(s) - 1)) * 10 + DigitVal(s[Len(s)])

RECURSIVE NatToStr(_)
NatToStr(n) ==
    IF n < 10 THEN <<DigitChar(n)>>
    ELSE NatToStr(n \div 10) \o <<DigitChar(n % 10)>>

\* str(int)
IntToStr(n) == IF n < 0 THEN <<"-">> \o NatToStr(0 - n) ELSE NatToStr(n)

\* ------------------------------------------------------------ float(text)
\* a run of digits in which single underscores may separate digits
DigitGroup(s) ==
    /\ s # <<>>
    /\ \A i \in 1..Len(s) : s[i] \in Digits \cup {"_"}
    /\ s[1] # "_" /\ s[Len(s)] # "_"
    /\ \A i \in 1..(Len(s) - 1) : ~(s[i] = "_" /\ s[i + 1] = "_")

Unsigned(s) == IF s # <<>> /\ Head(s) = "-" THEN Tail(s) ELSE s

\* float(s) does not raise ValueError
IsFloat(s) ==
    LET u == Unsigned(strip(s))
        ip == Before(u, ".")
        fp == After(u, ".")
    IN  IF HasChar(u, ".")
        THEN /\ ip = <<>> \/ DigitGroup(ip)
             /\ fp = <<>> \/ DigitGroup(fp)
             /\ ip # <<>> \/ fp # <<>>
        ELSE DigitGroup(u)

\* the decimals of a fraction that a time keeps, in ticks
FracTicks(fp) ==
    LET d == Remove(fp, "_")
        n == 3 + SubMsDigits
        p == SubSeq(d \o [i \in 1..n |-> "0"], 1, n)
    IN  DigitsVal(p)

\* float(s) in ticks, for IsFloat(s)
FloatTicks(s) ==
    LET t == strip(s)
        u == Unsigned(t)
        ip == Remove(Before(u, "."), "_")
        fp == After(u, ".")
        m == DigitsVal(ip) * TicksPerSec + FracTicks(fp)
    IN  IF t # u THEN 0 - m ELSE m

\* int(x) for x in ticks: truncation toward zero
IntOfTicks(x) == IF x < 0 THEN 0 - ((0 - x) \div TicksPerSec) ELSE x \div TicksPerSec

\* ------------------------------------------------------------- TimeParser
NoTime == [ok |-> FALSE, t |-> 0]
Time(t) == [ok |-> TRUE, t |-> t]

\* \d+(?:\.\d+)?
SecondsField(s) ==
    IF HasChar(s, ".") THEN isdigit(Before(s, ".")) /\ isdigit(After(s, "."))
    ELSE isdigit(s)

SecondsTicks(s) ==
    IF HasChar(s, ".")
    THEN DigitsVal(Before(s, ".")) * TicksPerSec + FracTicks(After(s, "."))
    ELSE DigitsVal(s) * TicksPerSec

\* mutant of parse_time: an hour counts sixty seconds
parse_time_ShortHour(time_str) ==
    IF ~notna(time_str) THEN NoTime
    ELSE LET s == strip(time_str)
             a == Before(s, ":")
             r == After(s, ":")
             b == Before(r, ":")
             c == After(r, ":")
         IN  IF s = <<>> THEN NoTime
             ELSE IF IsFloat(s) THEN Time(FloatTicks(s))
             ELSE IF HasChar(s, ":") /\ HasChar(r, ":")
                     /\ isdigit(a) /\ isdigit(b) /\ SecondsField(c)
                  THEN Time(DigitsVal(a) * 60 * TicksPerSec
                            + DigitsVal(b) * 60 * TicksPerSec + SecondsTicks(c))
             ELSE IF HasChar(s, ":") /\ isdigit(a) /\ SecondsField(r)
                  THEN Time(DigitsVal(a) * 60 * TicksPerSec + SecondsTicks(r))
             ELSE NoTime

\* TimeParser.parse_time
parse_time(time_str) ==
    IF ~notna(time_str) THEN NoTime
    ELSE LET s == strip(time_str)
             a == Before(s, ":")
             r == After(s, ":")
             b == Before(r, ":")
             c == After(r, ":")
         IN  IF s = <<>> THEN NoTime
             ELSE IF IsFloat(s) THEN Time(FloatTicks(s))
             ELSE IF HasChar(s, ":") /\ HasChar(r, ":")
                     /\ isdigit(a) /\ isdigit(b) /\ SecondsField(c)
                  THEN Time(DigitsVal(a) * 3600 * TicksPerSec
                            + DigitsVal(b) * 60 * TicksPerSec + SecondsTicks(c))
             ELSE IF HasChar(s, ":") /\ isdigit(a) /\ SecondsField(r)
                  THEN Time(DigitsVal(a) * 60 * TicksPerSec + SecondsTicks(r))
             ELSE NoTime

\* ------------------------------------------------------------ asset index
\* an audio file path: the stem is all the matcher reads of it
Path(stem, ext) == [stem |-> stem, ext |-> ext]
NoPath == [stem |-> <<>>, ext |-> "none"]

\* a dict is the sequence of its entries in insertion order
Entry(k, v) == [key |-> k, path |-> v]

DictHas(d, k) == \E i \in 1..Len(d) : d[i].key = k

DictGet(d, k) == d[CHOOSE i \in 1..Len(d) : d[i].key = k].path

\* mutant of DictSet: an existing key keeps its value
DictSet_KeepFirst(d, k, v) ==
    IF DictHas(d, k) THEN d ELSE Append(d, Entry(k, v))

\* d[k] = v: an existing key keeps its place
DictSet(d, k, v) ==
    IF DictHas(d, k)
    THEN [i \in 1..Len(d) |-> IF d[i].key = k THEN Entry(k, v) ELSE d[i]]
    ELSE Append(d, Entry(k, v))

\* ProcessWorker._build_audio_map
RECURSIVE _build_audio_map(_)
_build_audio_map(audio_files) ==
    IF audio_files = <<>> THEN <<>>
    ELSE LET n == Len(audio_files)
             file_path == audio_files[n]
             file_name == file_path.stem
             m == _build_audio_map(SubSeq(audio_files, 1, n - 1))
         IN  DictSet(DictSet(m, file_name, file_path),
                     lower(strip(file_name)), file_path)

\* the path of the first entry, in iteration order, among the positions hits
FirstPath(d, hits) ==
    IF hits = {} THEN NoPath
    ELSE d[CHOOSE i \in hits : \A j \in hits : i <= j].path

\* the key starts with x followed by a delimiter, or equals x
PrefixHit(key_lower, x_lower) ==
    \/ startswith(key_lower, x_lower \o <<"-">>)
    \/ startswith(key_lower, x_lower \o <<"_">>)
    \/ startswith(key_lower, x_lower \o <<" ">>)
    \/ key_lower = x_lower

\* mutant of Cascade: the prefix loop runs before the lowercase lookup
Cascade_PrefixFirst(x, audio_map) ==
    IF DictHas(audio_map, x) THEN DictGet(audio_map, x)
    ELSE IF {i \in 1..Len(audio_map) : PrefixHit(lower(audio_map[i].key), lower(x))} # {}
    THEN FirstPath(audio_map,
                   {i \in 1..Len(audio_map) : PrefixHit(lower(audio_map[i].key), lower(x))})
    ELSE IF DictHas(audio_map, lower(x)) THEN DictGet(audio_map, lower(x))
    ELSE NoPath

\* exact, lowercase, then delimited-prefix match of text x
Cascade(x, audio_map) ==
    IF DictHas(audio_map, x) THEN DictGet(audio_map, x)
    ELSE IF DictHas(audio_map, lower(x)) THEN DictGet(audio_map, lower(x))
    ELSE FirstPath(audio_map,
                   {i \in 1..Len(audio_map) : PrefixHit(lower(audio_map[i].key), lower(x))})

\* substring match of text x, either way round
Fuzzy(x, audio_map) ==
    FirstPath(audio_map,
              {i \in 1..Len(audio_map) :
                  \/ contains(lower(audio_map[i].key), lower(x))
                  \/ contains(lower(x), lower(audio_map[i].key))})

\* the id text compared by the exact/prefix tiers
IdText(accompaniment_id) ==
    LET id_str == strip(accompaniment_id)
    IN  IF HasChar(id_str, ".") /\ isdigit(Remove(Remove(id_str, "."), "-"))
           /\ IsFloat(id_str)
        THEN IntToStr(IntOfTicks(FloatTicks(id_str)))
        ELSE id_str

\* the id text compared by the substring tier
FuzzyIdText(accompaniment_id) ==
    LET id_str == strip(accompaniment_id)
    IN  IF HasChar(id_str, ".") /\ IsFloat(id_str)
        THEN IntToStr(IntOfTicks(FloatTicks(id_str)))
        ELSE id_str

\* mutant of _match_audio_file: the id tiers run under every strategy
_match_audio_file_IdAlways(row, audio_map, strategy) ==
    LET byId == IF notna(row.id)
                THEN Cascade(IdText(row.id), audio_map) ELSE NoPath
        byName == IF strategy \in {"name_only", "id_first", "fuzzy"} /\ notna(row.name)
                  THEN Cascade(strip(row.name), audio_map) ELSE NoPath
        fuzzyId == IF strategy = "fuzzy" /\ notna(row.id)
                   THEN Fuzzy(FuzzyIdText(row.id), audio_map) ELSE NoPath
        fuzzyName == IF strategy = "fuzzy" /\ notna(row.name)
                     THEN Fuzzy(strip(row.name), audio_map) ELSE NoPath
    IN  IF byId # NoPath THEN byId
        ELSE IF byName # NoPath THEN byName
        ELSE IF fuzzyId # NoPath THEN fuzzyId
        ELSE fuzzyName

\* mutant of _match_audio_file: the substring search over the id runs before
\* the tiers over the name
_match_audio_file_FuzzyIdEarly(row, audio_map, strategy) ==
    LET byId == IF strategy \in {"id_first", "fuzzy"} /\ notna(row.id)
                THEN Cascade(IdText(row.id), audio_map) ELSE NoPath
        byName == IF strategy \in {"name_only", "id_first", "fuzzy"} /\ notna(row.name)
                  THEN Cascade(strip(row.name), audio_map) ELSE NoPath
        fuzzyId == IF strategy = "fuzzy" /\ notna(row.id)
                   THEN Fuzzy(FuzzyIdText(row.id), audio_map) ELSE NoPath
        fuzzyName == IF strategy = "fuzzy" /\ notna(row.name)
                     THEN Fuzzy(strip(row.name), audio_map) ELSE NoPath
    IN  IF byId # NoPath THEN byId
        ELSE IF fuzzyId # NoPath THEN fuzzyId
        ELSE IF byName # NoPath THEN byName
        ELSE fuzzyName

\* mutant of _match_audio_file: the fuzzy strategy skips the tiers over the
\* name
_match_audio_file_FuzzyNoName(row, audio_map, strategy) ==
    LET byId == IF strategy \in {"id_first", "fuzzy"} /\ notna(row.id)
                THEN Cascade(IdText(row.id), audio_map) ELSE NoPath
        byName == IF strategy \in {"name_only", "id_first"} /\ notna(row.name)
                  THEN Cascade(strip(row.name), audio_map) ELSE NoPath
        fuzzyId == IF strategy = "fuzzy" /\ notna(row.id)
                   THEN Fuzzy(FuzzyIdText(row.id), audio_map) ELSE NoPath
        fuzzyName == IF strategy = "fuzzy" /\ notna(row.name)
                     THEN Fuzzy(strip(row.name), audio_map) ELSE NoPath
    IN  IF byId # NoPath THEN byId
        ELSE IF byName # NoPath THEN byName
        ELSE IF fuzzyId # NoPath THEN fuzzyId
        ELSE fuzzyName

\* ProcessWorker._match_audio_file
_match_audio_file(row, audio_map, strategy) ==
    LET byId == IF strategy \in {"id_first", "fuzzy"} /\ notna(row.id)
                THEN Cascade(IdText(row.id), audio_map) ELSE NoPath
        byName == IF strategy \in {"name_only", "id_first", "fuzzy"} /\ notna(row.name)
                  THEN Cascade(strip(row.name), audio_map) ELSE NoPath
        fuzzyId == IF strategy = "fuzzy" /\ notna(row.id)
                   THEN Fuzzy(FuzzyIdText(row.id), audio_map) ELSE NoPath
        fuzzyName == IF strategy = "fuzzy" /\ notna(row.name)
                     THEN Fuzzy(strip(row.name), audio_map) ELSE NoPath
    IN  IF byId # NoPath THEN byId
        ELSE IF byName # NoPath THEN byName
        ELSE IF fuzzyId # NoPath THEN fuzzyId
        ELSE fuzzyName

\* ----------------------------------------------------------- AudioProcessor
\* int(seconds * 1000): whole milliseconds, truncated toward zero
Ms(t) == IF t < 0 THEN 0 - ((0 - t) \div TicksPerMs) ELSE t \div TicksPerMs

Min(a, b) == IF a <= b THEN a ELSE b
Max(a, b) == IF a >= b THEN a ELSE b

\* an audio segment is the span of milliseconds it holds of its asset
Seg(s, e) == [s |-> s, e |-> e]
NoSeg == [s |-> -1, e |-> -1]

\* AudioProcessor.cut_audio on an asset of len_ms milliseconds
cut_audio(len_ms, start_time, end_time) ==
    LET start_ms == Ms(start_time)
        end_ms == Ms(end_time)
    IN  IF start_ms >= end_ms THEN NoSeg
        ELSE Seg(Min(start_ms, len_ms), Min(end_ms, len_ms))

\* truth value of a cut result: None and the empty segment are false
Truthy(seg) == seg # NoSeg /\ seg.e > seg.s

\* -------------------------------------------------------- FileNameSanitizer
max_length == 200

Dangerous == {"<", ">", ":", "\"", "/", "\\", "|", "?", "*"}

\* FileNameSanitizer.sanitize
sanitize(filename) ==
    LET r == [i \in 1..Len(filename) |->
                 IF filename[i] \in Dangerous THEN "_" ELSE filename[i]]
        t == strip(r)
    IN  IF Len(t) > max_length THEN SubSeq(t, 1, max_length) ELSE t

\* an output path: <output_dir>/<base>-<segment>[(<n>)].<ext>; n = 0 is no suffix
OutPath(base, seg, n, ext) == [base |-> base, seg |-> seg, n |-> n, ext |-> ext]
NoOut == [base |-> <<>>, seg |-> "none", n |-> 0, ext |-> "none"]

\* mutant of get_unique_filename: the suffixed name is not looked up
get_unique_filename_Once(files, base, seg, ext) ==
    IF OutPath(base, seg, 0, ext) \notin files THEN OutPath(base, seg, 0, ext)
    ELSE OutPath(base, seg, 1, ext)

\* FileNameSanitizer.get_unique_filename, files being the paths that exist
get_unique_filename(files, base, seg, ext) ==
    IF OutPath(base, seg, 0, ext) \notin files THEN OutPath(base, seg, 0, ext)
    ELSE LET free == {c \in 1..(Cardinality(files) + 1) :
                         OutPath(base, seg, c, ext) \notin files}
         IN  OutPath(base, seg, CHOOSE c \in free : \A d \in free : c <= d, ext)

\* mutant of output_path_for: the overwrite option is not read
output_path_for_Unique(files, base, seg, ext, overwrite) ==
    get_unique_filename(files, base, seg, ext)

\* the path a segment is exported to (lines 468-472, 494-498, 511-515)
output_path_for(files, base, seg, ext, overwrite) ==
    IF overwrite THEN OutPath(base, seg, 0, ext)
    ELSE get_unique_filename(files, base, seg, ext)

\* ------------------------------------------------------------ row pipeline
\* str(cell): a missing cell prints as nan
CellStr(cell) == IF notna(cell) THEN cell ELSE <<"n", "a", "n">>

\* the result record a row starts with (lines 389-410)
new_result(row) ==
    [accompaniment_id |-> IF notna(row.id) THEN row.id ELSE <<>>,
     song_name |-> IF notna(row.name) THEN row.name ELSE <<>>,
     input_path |-> NoPath,
     output_full |-> NoOut, output_part1 |-> NoOut, output_part2 |-> NoOut,
     status |-> "failed", error |-> ""]

NoLocal ==
    [audio |-> -1, start_time |-> 0, end_time |-> 0, split_time |-> NoTime,
     base_name |-> <<>>]

\* mutant of derive_row: the start adjustment is not clamped at zero
derive_row_NoClamp(row, audio_map, cfg, dup_time) ==
    LET r0 == new_result(row)
        audio_path == _match_audio_file(row, audio_map, cfg.match_strategy)
        r1 == [r0 EXCEPT !.input_path = audio_path]
        start == parse_time(row.start)
        end == parse_time(row.end)
        st == start.t - cfg.start_adjust
        en == end.t + cfg.end_adjust
        stop(r) == [go |-> FALSE, result |-> r, local |-> NoLocal]
    IN  IF audio_path = NoPath THEN stop([r0 EXCEPT !.error = "no_match"])
        ELSE IF dup_time THEN stop([r1 EXCEPT !.error = "exception"])
        ELSE IF ~start.ok \/ ~end.ok THEN stop([r1 EXCEPT !.error = "time_parse"])
        ELSE IF st >= en THEN stop([r1 EXCEPT !.error = "time_order"])
        ELSE [go |-> TRUE, result |-> r1,
              local |-> [audio |-> -1, start_time |-> st, end_time |-> en,
                         split_time |-> parse_time(row.split),
                         base_name |-> sanitize(CellStr(row.id))]]

\* mutant of derive_row: the order of the window is not checked
derive_row_NoOrderCheck(row, audio_map, cfg, dup_time) ==
    LET r0 == new_result(row)
        audio_path == _match_audio_file(row, audio_map, cfg.match_strategy)
        r1 == [r0 EXCEPT !.input_path = audio_path]
        start == parse_time(row.start)
        end == parse_time(row.end)
        st == Max(0, start.t - cfg.start_adjust)
        en == end.t + cfg.end_adjust
        stop(r) == [go |-> FALSE, result |-> r, local |-> NoLocal]
    IN  IF audio_path = NoPath THEN stop([r0 EXCEPT !.error = "no_match"])
        ELSE IF dup_time THEN stop([r1 EXCEPT !.error = "exception"])
        ELSE IF ~start.ok \/ ~end.ok THEN stop([r1 EXCEPT !.error = "time_parse"])
        ELSE [go |-> TRUE, result |-> r1,
              local |-> [audio |-> -1, start_time |-> st, end_time |-> en,
                         split_time |-> parse_time(row.split),
                         base_name |-> sanitize(CellStr(row.id))]]

\* match, parse and derive the window of one row (lines 412-447): the row's
\* result so far, whether the row goes on to load its asset, and its times.
\* dup_time: the table has two start-time columns, so parse_time raises, which
\* the row's try/except turns into the row's error.
derive_row(row, audio_map, cfg, dup_time) ==
    LET r0 == new_result(row)
        audio_path == _match_audio_file(row, audio_map, cfg.match_strategy)
        r1 == [r0 EXCEPT !.input_path = audio_path]
        start == parse_time(row.start)
        end == parse_time(row.end)
        st == Max(0, start.t - cfg.start_adjust)
        en == end.t + cfg.end_adjust
        stop(r) == [go |-> FALSE, result |-> r, local |-> NoLocal]
    IN  IF audio_path = NoPath THEN stop([r0 EXCEPT !.error = "no_match"])
        ELSE IF dup_time THEN stop([r1 EXCEPT !.error = "exception"])
        ELSE IF ~start.ok \/ ~end.ok THEN stop([r1 EXCEPT !.error = "time_parse"])
        ELSE IF st >= en THEN stop([r1 EXCEPT !.error = "time_order"])
        ELSE [go |-> TRUE, result |-> r1,
              local |-> [audio |-> -1, start_time |-> st, end_time |-> en,
                         split_time |-> parse_time(row.split),
                         base_name |-> sanitize(CellStr(row.id))]]

\* mutant of judge: a row with an error message is never a success
judge_NoError(r) ==
    IF (r.output_full # NoOut \/ r.output_part1 # NoOut \/ r.output_part2 # NoOut)
       /\ r.error = ""
    THEN [r EXCEPT !.status = "success"]
    ELSE [r EXCEPT !.error = "no_output"]

\* lines 521-525: success when any output was produced
judge(r) ==
    IF r.output_full # NoOut \/ r.output_part1 # NoOut \/ r.output_part2 # NoOut
    THEN [r EXCEPT !.status = "success"]
    ELSE [r EXCEPT !.error = "no_output"]

\* mutant of split_error: only a missing split point is refused
split_error_NoRange(loc) ==
    IF ~loc.split_time.ok THEN "split_missing" ELSE ""

\* the split point lies strictly inside the window (lines 480-485)
split_error(loc) ==
    IF ~loc.split_time.ok THEN "split_missing"
    ELSE IF loc.split_time.t <= loc.start_time \/ loc.split_time.t >= loc.end_time
    THEN "split_range"
    ELSE ""

\* ------------------------------------------------------------------ inputs
File1 == Path(<<"1", "2", "-", "a", "b">>, "wav")
File2 == Path(<<"A", "B">>, "mp3")

\* the audio files on disk and their lengths in milliseconds; any other file
\* does not decode
AudioLen(path) ==
    IF path = File1 THEN 30000 ELSE IF path = File2 THEN 12000 ELSE -1

AudioLists == {<<>>, <<File1, File2>>}

Row(id, name, start, end, split) ==
    [id |-> id, name |-> name, start |-> start, end |-> end, split |-> split]

RowOk == Row(<<"1", "2">>, <<"a", "b">>, <<"4">>, <<"0", ":", "2", "0">>, <<"1", "5">>)
RowNoSplit == Row(<<"1", "2", ".", "0">>, NaN, <<"1", "0">>, <<"2", "0">>, NaN)
RowNoMatch == Row(<<"9", "9">>, <<"b", "b">>, <<"1", "0">>, <<"2", "0">>, <<"1", "5">>)
RowOrder == Row(<<"1", "2">>, <<"a", "b">>, <<"2", "0">>, <<"2", "0">>, NaN)
RowParse == Row(<<"1", "2">>, <<"a", "b">>, <<"1", ":", "b">>, <<"2", "0">>, NaN)

RowPool == {RowOk, RowNoSplit, RowNoMatch, RowOrder, RowParse}

\* the time tables: not loaded, any table of up to MaxRows rows, and a table
\* whose header names the id column (or the start-time column) twice
ExcelData(loaded, rows, dup) ==
    [loaded |-> loaded, rows |-> rows, dup |-> dup, missing |-> "none"]

\* a sheet without the optional column col: row.get(col, None) is None in
\* every row
Without(col, table) == [table EXCEPT !.missing = col]

Tables ==
    {ExcelData(FALSE, <<>>, "none")}
    \cup {ExcelData(TRUE, t, "none") : t \in UNION {[1..n -> RowPool] : n \in 0..MaxRows}}
    \cup {ExcelData(TRUE, <<RowOk, RowNoMatch>>, d) : d \in {"id", "time"}}

\* the widget values start_processing reads (lines 1170-1206); times in ticks
Widgets(strategy, format, start_adjust, end_adjust, overwrite, dir, full, split) ==
    [match_strategy |-> strategy, export_format |-> format,
     start_adjust |-> start_adjust, end_adjust |-> end_adjust,
     mode_full |-> full, mode_split |-> split, overwrite |-> overwrite,
     output_dir |-> dir]

\* the output directory field: "blank", "exists" (a directory holding the
\* files of an earlier run), "missing" (can be created), "uncreatable"
Setups ==
    {Widgets("id_first", "wav", 0, 0, FALSE, "exists", f, sp) :
        f \in BOOLEAN, sp \in BOOLEAN}
    \cup {Widgets("name_only", "mp3", 6 * TicksPerSec, 0, TRUE, "missing", f, sp) :
        f \in BOOLEAN, sp \in BOOLEAN}
    \cup {Widgets("fuzzy", "wav", 0, 0 - 6 * TicksPerSec, TRUE, "exists", f, sp) :
        f \in BOOLEAN, sp \in BOOLEAN}
    \cup {Widgets("id_first", "wav", 0, 0, FALSE, d, TRUE, TRUE) :
        d \in {"blank", "uncreatable"}}

OldFiles ==
    {OutPath(<<"1", "2">>, "full", 0, "wav"), OutPath(<<"1", "2">>, "part1", 0, "wav")}

\* ------------------------------------------------------------------- state
VARIABLES
    audio_files,     \* ChorusCutterGUI.audio_files
    excel_data,      \* ChorusCutterGUI.excel_data: loaded, rows, duplicated columns,
                     \* missing column
    ui,              \* the widgets start_processing reads
    start_btn,       \* start button enabled
    stop_btn,        \* stop button enabled
    warning,         \* the message box start_processing showed, "" for none
    match_log,       \* check_matching: the path logged for each row, in row order
    process_worker,  \* "none" or "worker"
    is_stopped,      \* ProcessWorker.is_stopped
    pc,              \* where the worker thread is
    audio_map,       \* _process: audio_map
    idx,             \* row index of the batch loop
    local,           \* _process_single_row: audio, times, base_name
    result,          \* _process_single_row: result
    counts,          \* _process: success_count, failed_count, cancelled_count
    signals,         \* row_updated / progress_updated / finished, in emission order
    row_results,     \* the payloads of row_updated, in emission order
    stats,           \* the payload of finished
    log_error,       \* run() logged an exception that escaped _process
    disk,            \* the files in the output directory
    dir_exists,      \* the output directory exists
    exports,         \* history: every export_audio call
    calls,           \* history: every load_audio and cut_audio call
    faults,          \* decode/write failures so far
    stop_at,         \* history: where the worker was when stop() was called:
                     \* inside a row, at which idx, rows already returned
    first_run,       \* history: what the worker before this one emitted and wrote
    reruns           \* how many more batches the user starts after a finished one

vars ==
    <<audio_files, excel_data, ui, start_btn, stop_btn, warning, match_log,
      process_worker, is_stopped, pc, audio_map, idx, local, result, counts, signals, row_results, stats,
      log_error, disk, dir_exists, exports, calls, faults, stop_at, first_run, reruns>>

inputs == <<audio_files, excel_data, ui>>
gui == <<start_btn, stop_btn, warning, match_log, process_worker>>
runs == <<first_run, reruns>>
rowvars == <<local, result>>
outvars == <<signals, row_results, stats, log_error>>
fsvars == <<disk, dir_exists, exports, calls, faults>>

NoResult == new_result(Row(NaN, NaN, NaN, NaN, NaN))
NoStats == [total |-> -1, success |-> 0, failed |-> 0, cancelled |-> 0]
NoStop == [in_row |-> FALSE, idx |-> -1, returned |-> -1]

\* what is kept of the run of a worker that is replaced
Run(ended, stopped, results, written) ==
    [ended |-> ended, stopped |-> stopped, row_results |-> results,
     exports |-> written]

NoRun == Run(FALSE, FALSE, <<>>, <<>>)

Init ==
    /\ audio_files \in AudioLists
    /\ excel_data \in Tables
    /\ ui \in Setups
    /\ start_btn = TRUE
    /\ stop_btn = FALSE
    /\ warning = ""
    /\ match_log = <<>>
    /\ process_worker = "none"
    /\ is_stopped = FALSE
    /\ pc = "idle"
    /\ audio_map = <<>>
    /\ idx = 0
    /\ local = NoLocal
    /\ result = NoResult
    /\ counts = [success |-> 0, failed |-> 0, cancelled |-> 0]
    /\ signals = <<>>
    /\ row_results = <<>>
    /\ stats = NoStats
    /\ log_error = FALSE
    /\ dir_exists = (ui.output_dir = "exists")
    /\ disk = IF ui.output_dir = "exists" THEN OldFiles ELSE {}
    /\ exports = <<>>
    /\ calls = <<>>
    /\ faults = 0
    /\ stop_at = NoStop
    /\ first_run = NoRun
    /\ reruns = 0

\* --------------------------------------------------------- ChorusCutterGUI
\* the state of a ProcessWorker and the histories kept of it
worker_state ==
    <<is_stopped, signals, row_results, stats, exports, calls, stop_at, first_run,
      reruns>>

\* start_processing builds a new ProcessWorker (lines 1208-1226): its flag is
\* clear and nothing is emitted yet; the histories start again with it
new_worker ==
    /\ is_stopped' = FALSE
    /\ signals' = <<>>
    /\ row_results' = <<>>
    /\ stats' = NoStats
    /\ exports' = <<>>
    /\ calls' = <<>>
    /\ stop_at' = NoStop
    /\ first_run' = IF process_worker = "worker"
                     THEN Run(TRUE, is_stopped, row_results, exports)
                     ELSE first_run
    /\ reruns' = IF process_worker = "worker" THEN reruns - 1 ELSE reruns

\* mutant of StartProcessing: the export modes are not checked
StartProcessing_NoModeCheck ==
    /\ start_btn
    /\ process_worker = "none" \/ reruns > 0
    /\ UNCHANGED match_log
    /\ IF audio_files = <<>>
       THEN /\ warning' = "no_audio"
            /\ UNCHANGED <<start_btn, stop_btn, process_worker, pc, dir_exists, worker_state>>
       ELSE IF ~excel_data.loaded \/ Len(excel_data.rows) = 0
       THEN /\ warning' = "no_table"
            /\ UNCHANGED <<start_btn, stop_btn, process_worker, pc, dir_exists, worker_state>>
       ELSE IF ui.output_dir = "blank"
       THEN /\ warning' = "no_output_dir"
            /\ UNCHANGED <<start_btn, stop_btn, process_worker, pc, dir_exists, worker_state>>
       ELSE IF ~dir_exists /\ ui.output_dir = "uncreatable"
       THEN /\ warning' = "mkdir_failed"
            /\ UNCHANGED <<start_btn, stop_btn, process_worker, pc, dir_exists, worker_state>>
       ELSE /\ dir_exists' = TRUE
            /\ start_btn' = FALSE
            /\ stop_btn' = TRUE
            /\ process_worker' = "worker"
            /\ pc' = "begin"
            /\ new_worker
            /\ UNCHANGED warning
    /\ UNCHANGED <<inputs, audio_map, idx, rowvars, counts, log_error, disk, faults>>

\* ChorusCutterGUI.start_processing; the model follows the first worker, and
\* as many later ones as there are reruns
StartProcessing ==
    /\ start_btn
    /\ process_worker = "none" \/ reruns > 0
    /\ UNCHANGED match_log
    /\ IF audio_files = <<>>
       THEN /\ warning' = "no_audio"
            /\ UNCHANGED <<start_btn, stop_btn, process_worker, pc, dir_exists, worker_state>>
       ELSE IF ~excel_data.loaded \/ Len(excel_data.rows) = 0
       THEN /\ warning' = "no_table"
            /\ UNCHANGED <<start_btn, stop_btn, process_worker, pc, dir_exists, worker_state>>
       ELSE IF ui.output_dir = "blank"
       THEN /\ warning' = "no_output_dir"
            /\ UNCHANGED <<start_btn, stop_btn, process_worker, pc, dir_exists, worker_state>>
       ELSE IF ~dir_exists /\ ui.output_dir = "uncreatable"
       THEN /\ warning' = "mkdir_failed"
            /\ UNCHANGED <<start_btn, stop_btn, process_worker, pc, dir_exists, worker_state>>
       ELSE IF ~ui.mode_full /\ ~ui.mode_split
       THEN /\ warning' = "no_mode"
            /\ dir_exists' = TRUE
            /\ UNCHANGED <<start_btn, stop_btn, process_worker, pc, worker_state>>
       ELSE /\ dir_exists' = TRUE
            /\ start_btn' = FALSE
            /\ stop_btn' = TRUE
            /\ process_worker' = "worker"
            /\ pc' = "begin"
            /\ new_worker
            /\ UNCHANGED warning
    /\ UNCHANGED <<inputs, audio_map, idx, rowvars, counts, log_error, disk, faults>>

\* the worker is inside _process_single_row
InRow ==
    {"row", "full_check", "full_export", "split_check", "part1_export",
     "part2_check", "part2_export"}

\* ChorusCutterGUI.stop_processing, ProcessWorker.stop
StopProcessing ==
    /\ stop_btn
    /\ process_worker = "worker"
    /\ is_stopped' = TRUE
    /\ stop_btn' = FALSE
    /\ stop_at' = [in_row |-> pc \in InRow, idx |-> idx,
                    returned |-> IF pc \in {"emit_row", "count"} THEN idx + 1 ELSE idx]
    /\ UNCHANGED <<inputs, start_btn, warning, match_log, process_worker, pc, audio_map, idx,
                   rowvars,
                   counts, outvars, fsvars, runs>>

\* ChorusCutterGUI.processing_finished: the slot of the finished signal
ProcessingFinished ==
    /\ stats # NoStats
    /\ ~start_btn
    /\ start_btn' = TRUE
    /\ stop_btn' = FALSE
    /\ UNCHANGED <<inputs, warning, match_log, process_worker, is_stopped, pc, audio_map, idx,
                   rowvars,
                   counts, outvars, fsvars, stop_at, runs>>

\* ----------------------------------------------------------- ProcessWorker
total == Len(excel_data.rows)

\* _process up to the batch loop (lines 233-260)
Begin ==
    /\ pc = "begin"
    /\ audio_map' = _build_audio_map(audio_files)
    /\ counts' = [success |-> 0, failed |-> 0, cancelled |-> 0]
    /\ idx' = 0
    /\ pc' = "loop"
    /\ UNCHANGED <<inputs, gui, is_stopped, rowvars, outvars, fsvars, stop_at, runs>>

\* the head of the batch loop (lines 262-266)
LoopHead ==
    /\ pc = "loop"
    /\ IF idx >= total
       THEN pc' = "stats" /\ UNCHANGED counts
       ELSE IF is_stopped
       THEN /\ counts' = [counts EXCEPT !.cancelled = @ + 1]
            /\ pc' = "stats"
       ELSE pc' = "row" /\ UNCHANGED counts
    /\ UNCHANGED <<inputs, gui, is_stopped, audio_map, idx, rowvars, outvars, fsvars, stop_at, runs>>

\* whether the environment may fail the next decode or write
Outcomes == IF faults < MaxFaults THEN {TRUE, FALSE} ELSE {TRUE}

\* one entry of the call history: a load_audio call with the length of the
\* audio it returned (-1 for None), or a cut_audio call with the length of the
\* audio, the window in ticks and the segment returned
Call(op, row, seg, len_ms, start_time, end_time, ret) ==
    [op |-> op, row |-> row, seg |-> seg, len_ms |-> len_ms,
     start_time |-> start_time, end_time |-> end_time, ret |-> ret]

\* mutant of RowStart: the asset is decoded as soon as it is matched
RowStart_LoadFirst ==
    /\ pc = "row"
    /\ IF excel_data.dup = "id"
       THEN /\ pc' = "raise"
            /\ UNCHANGED <<rowvars, faults, calls>>
       ELSE LET d == derive_row(excel_data.rows[idx + 1], audio_map, ui,
                                excel_data.dup = "time")
            IN  IF ~d.go
                THEN /\ result' = d.result
                     /\ local' = d.local
                     /\ pc' = "emit_row"
                     /\ calls' = IF d.result.input_path = NoPath THEN calls
                                 ELSE Append(calls,
                                        Call("load", idx, "",
                                             AudioLen(d.result.input_path),
                                             0, 0, NoSeg))
                     /\ UNCHANGED faults
                ELSE \E ok \in Outcomes :
                       /\ calls' = Append(calls,
                              Call("load", idx, "",
                                   IF ok THEN AudioLen(d.result.input_path) ELSE -1,
                                   0, 0, NoSeg))
                       /\ IF ok /\ AudioLen(d.result.input_path) >= 0
                          THEN /\ result' = d.result
                               /\ local' = [d.local EXCEPT
                                               !.audio = AudioLen(d.result.input_path)]
                               /\ pc' = "full_check"
                               /\ UNCHANGED faults
                          ELSE /\ result' = [d.result EXCEPT !.error = "load_failed"]
                               /\ local' = d.local
                               /\ pc' = "emit_row"
                               /\ faults' = faults + 1
    /\ UNCHANGED <<inputs, gui, is_stopped, audio_map, idx, counts, outvars, disk, dir_exists,
                   exports, stop_at, runs>>

\* _process_single_row up to the loaded asset (lines 384-454).  With two id
\* (or name) columns row.get returns a Series and `if pd.notna(...)` raises
\* before the row's try block is entered.
RowStart ==
    /\ pc = "row"
    /\ IF excel_data.dup = "id"
       THEN /\ pc' = "raise"
            /\ UNCHANGED <<rowvars, faults, calls>>
       ELSE LET d == derive_row(excel_data.rows[idx + 1], audio_map, ui,
                                excel_data.dup = "time")
            IN  IF ~d.go
                THEN /\ result' = d.result
                     /\ local' = d.local
                     /\ pc' = "emit_row"
                     /\ UNCHANGED <<faults, calls>>
                ELSE \E ok \in Outcomes :
                       /\ calls' = Append(calls,
                              Call("load", idx, "",
                                   IF ok THEN AudioLen(d.result.input_path) ELSE -1,
                                   0, 0, NoSeg))
                       /\ IF ok /\ AudioLen(d.result.input_path) >= 0
                          THEN /\ result' = d.result
                               /\ local' = [d.local EXCEPT
                                               !.audio = AudioLen(d.result.input_path)]
                               /\ pc' = "full_check"
                               /\ UNCHANGED faults
                          ELSE /\ result' = [d.result EXCEPT !.error = "load_failed"]
                               /\ local' = d.local
                               /\ pc' = "emit_row"
                               /\ faults' = faults + 1
    /\ UNCHANGED <<inputs, gui, is_stopped, audio_map, idx, counts, outvars, disk, dir_exists,
                   exports, stop_at, runs>>

\* the stop check before the full window (lines 461-464)
FullCheck ==
    /\ pc = "full_check"
    /\ IF ~ui.mode_full
       THEN pc' = "split_check" /\ UNCHANGED result
       ELSE IF is_stopped
       THEN /\ result' = [result EXCEPT !.status = "cancelled"]
            /\ pc' = "emit_row"
       ELSE pc' = "full_export" /\ UNCHANGED result
    /\ UNCHANGED <<inputs, gui, is_stopped, audio_map, idx, local, counts, outvars, fsvars,
                   stop_at, runs>>

OutField(seg) ==
    CASE seg = "full" -> "output_full"
      [] seg = "part1" -> "output_part1"
      [] seg = "part2" -> "output_part2"

\* cut one window and export it (lines 466-476, 492-502, 509-519); ok: the
\* write succeeds
export_segment(seg, start_time, end_time, ok) ==
    LET cut == cut_audio(local.audio, start_time, end_time)
        output_path == output_path_for(disk, local.base_name, seg,
                                       ui.export_format, ui.overwrite)
        call == [row |-> idx, seg |-> seg, path |-> output_path, ok |-> ok,
                 stopped |-> is_stopped]
        cuts == Append(calls, Call("cut", idx, seg, local.audio, start_time,
                                   end_time, cut))
    IN  IF ~Truthy(cut)
        THEN [result |-> result, disk |-> disk, exports |-> exports,
              calls |-> cuts, faults |-> faults]
        ELSE IF ok
        THEN [result |-> [result EXCEPT ![OutField(seg)] = output_path],
              disk |-> disk \cup {output_path},
              exports |-> Append(exports, call), calls |-> cuts, faults |-> faults]
        ELSE [result |-> result, disk |-> disk,
              exports |-> Append(exports, call), calls |-> cuts,
              faults |-> faults + 1]

\* the full window (lines 466-476)
FullExport ==
    /\ pc = "full_export"
    /\ \E ok \in Outcomes :
         LET x == export_segment("full", local.start_time, local.end_time, ok)
         IN  /\ result' = x.result
             /\ disk' = x.disk
             /\ exports' = x.exports
             /\ calls' = x.calls
             /\ faults' = x.faults
    /\ pc' = "split_check"
    /\ UNCHANGED <<inputs, gui, is_stopped, audio_map, idx, local, counts, outvars, dir_exists,
                   stop_at, runs>>

\* the split mode up to its first stop check (lines 479-489, 521-525)
SplitCheck ==
    /\ pc = "split_check"
    /\ IF ~ui.mode_split
       THEN result' = judge(result) /\ pc' = "emit_row"
       ELSE IF split_error(local) # ""
       THEN /\ result' = judge([result EXCEPT !.error = split_error(local)])
            /\ pc' = "emit_row"
       ELSE IF is_stopped
       THEN /\ result' = [result EXCEPT !.status = "cancelled"]
            /\ pc' = "emit_row"
       ELSE pc' = "part1_export" /\ UNCHANGED result
    /\ UNCHANGED <<inputs, gui, is_stopped, audio_map, idx, local, counts, outvars, fsvars,
                   stop_at, runs>>

\* the first part (lines 491-502)
Part1Export ==
    /\ pc = "part1_export"
    /\ \E ok \in Outcomes :
         LET x == export_segment("part1", local.start_time, local.split_time.t, ok)
         IN  /\ result' = x.result
             /\ disk' = x.disk
             /\ exports' = x.exports
             /\ calls' = x.calls
             /\ faults' = x.faults
    /\ pc' = "part2_check"
    /\ UNCHANGED <<inputs, gui, is_stopped, audio_map, idx, local, counts, outvars, dir_exists,
                   stop_at, runs>>

\* mutant of Part2Check: the flag is not read between the two parts
Part2Check_NoStop ==
    /\ pc = "part2_check"
    /\ pc' = "part2_export"
    /\ UNCHANGED <<inputs, gui, is_stopped, audio_map, idx, rowvars, counts, outvars, fsvars,
                   stop_at, runs>>

\* the stop check between the two parts (lines 504-506)
Part2Check ==
    /\ pc = "part2_check"
    /\ IF is_stopped
       THEN /\ result' = [result EXCEPT !.status = "cancelled"]
            /\ pc' = "emit_row"
       ELSE pc' = "part2_export" /\ UNCHANGED result
    /\ UNCHANGED <<inputs, gui, is_stopped, audio_map, idx, local, counts, outvars, fsvars,
                   stop_at, runs>>

\* the second part and the verdict (lines 508-525)
Part2Export ==
    /\ pc = "part2_export"
    /\ \E ok \in Outcomes :
         LET x == export_segment("part2", local.split_time.t, local.end_time, ok)
         IN  /\ result' = judge(x.result)
             /\ disk' = x.disk
             /\ exports' = x.exports
             /\ calls' = x.calls
             /\ faults' = x.faults
    /\ pc' = "emit_row"
    /\ UNCHANGED <<inputs, gui, is_stopped, audio_map, idx, local, counts, outvars, dir_exists,
                   stop_at, runs>>

Signal(sig, i, n) == [sig |-> sig, idx |-> i, total |-> n]

\* mutant of EmitRow: a cancelled row is not reported
EmitRow_NotCancelled ==
    /\ pc = "emit_row"
    /\ IF result.status = "cancelled"
       THEN UNCHANGED <<signals, row_results>>
       ELSE /\ signals' = Append(signals, Signal("row_updated", idx, total))
            /\ row_results' = Append(row_results, [idx |-> idx, result |-> result])
    /\ pc' = "count"
    /\ UNCHANGED <<inputs, gui, is_stopped, audio_map, idx, rowvars, counts, stats, log_error,
                   fsvars, stop_at, runs>>

\* mutant of EmitRow: the result of a row is emitted twice
EmitRow_Twice ==
    /\ pc = "emit_row"
    /\ signals' = Append(signals, Signal("row_updated", idx, total))
    /\ row_results' = row_results \o <<[idx |-> idx, result |-> result],
                                       [idx |-> idx, result |-> result]>>
    /\ pc' = "count"
    /\ UNCHANGED <<inputs, gui, is_stopped, audio_map, idx, rowvars, counts, stats, log_error,
                   fsvars, stop_at, runs>>

\* self.row_updated.emit(idx, result) (line 272)
EmitRow ==
    /\ pc = "emit_row"
    /\ signals' = Append(signals, Signal("row_updated", idx, total))
    /\ row_results' = Append(row_results, [idx |-> idx, result |-> result])
    /\ pc' = "count"
    /\ UNCHANGED <<inputs, gui, is_stopped, audio_map, idx, rowvars, counts, stats, log_error,
                   fsvars, stop_at, runs>>

\* mutant of counted: a failed row is counted nowhere
counted_NoFailed(c, status) ==
    IF status = "success" THEN [c EXCEPT !.success = @ + 1] ELSE c

\* the counters after a row (lines 274-277)
counted(c, status) ==
    IF status = "success" THEN [c EXCEPT !.success = @ + 1]
    ELSE IF status = "failed" THEN [c EXCEPT !.failed = @ + 1]
    ELSE c

\* mutant of CountRow: progress reports idx, not idx + 1
CountRow_ProgressIdx ==
    /\ pc = "count"
    /\ counts' = counted(counts, result.status)
    /\ signals' = Append(signals, Signal("progress_updated", idx, total))
    /\ idx' = idx + 1
    /\ pc' = "loop"
    /\ UNCHANGED <<inputs, gui, is_stopped, audio_map, rowvars, row_results, stats,
                   log_error,
                   fsvars, stop_at, runs>>

\* count the row and report progress (lines 274-279)
CountRow ==
    /\ pc = "count"
    /\ counts' = counted(counts, result.status)
    /\ signals' = Append(signals, Signal("progress_updated", idx + 1, total))
    /\ idx' = idx + 1
    /\ pc' = "loop"
    /\ UNCHANGED <<inputs, gui, is_stopped, audio_map, rowvars, row_results, stats,
                   log_error,
                   fsvars, stop_at, runs>>

\* the statistics of the run (lines 281-288)
EmitStats ==
    /\ pc = "stats"
    /\ stats' = [total |-> total, success |-> counts.success,
                 failed |-> counts.failed, cancelled |-> counts.cancelled]
    /\ signals' = Append(signals, Signal("finished", idx, total))
    /\ pc' = "ended"
    /\ UNCHANGED <<inputs, gui, is_stopped, audio_map, idx, rowvars, counts, row_results,
                   log_error, fsvars, stop_at, runs>>

\* ProcessWorker.run: an exception out of _process is logged (lines 230-231)
RunExcept ==
    /\ pc = "raise"
    /\ log_error' = TRUE
    /\ pc' = "ended"
    /\ UNCHANGED <<inputs, gui, is_stopped, audio_map, idx, rowvars, counts, signals,
                   row_results, stats, fsvars, stop_at, runs>>

Worker ==
    \/ Begin \/ LoopHead \/ RowStart \/ FullCheck \/ FullExport \/ SplitCheck
    \/ Part1Export \/ Part2Check \/ Part2Export \/ EmitRow \/ CountRow
    \/ EmitStats \/ RunExcept

Next == StartProcessing \/ StopProcessing \/ ProcessingFinished \/ Worker

Spec == Init /\ [][Next]_vars

\* the user starts a second batch after the first has finished, with the same
\* files, table and widgets, in an environment whose decodes and writes all
\* succeed
InitRerun ==
    /\ audio_files \in AudioLists
    /\ excel_data \in Tables
    /\ ui \in Setups
    /\ start_btn = TRUE
    /\ stop_btn = FALSE
    /\ warning = ""
    /\ match_log = <<>>
    /\ process_worker = "none"
    /\ is_stopped = FALSE
    /\ pc = "idle"
    /\ audio_map = <<>>
    /\ idx = 0
    /\ local = NoLocal
    /\ result = NoResult
    /\ counts = [success |-> 0, failed |-> 0, cancelled |-> 0]
    /\ signals = <<>>
    /\ row_results = <<>>
    /\ stats = NoStats
    /\ log_error = FALSE
    /\ dir_exists = (ui.output_dir = "exists")
    /\ disk = IF ui.output_dir = "exists" THEN OldFiles ELSE {}
    /\ exports = <<>>
    /\ calls = <<>>
    /\ faults = MaxFaults
    /\ stop_at = NoStop
    /\ first_run = NoRun
    /\ reruns = 1

SpecRerun == InitRerun /\ [][Next]_vars

\* the planner's inputs: one row with any of the start, end and split times
\* below, under every pair of adjustments of -6, 0 and 6 seconds, on an asset
\* of 30 seconds (matched by id) or of 12 seconds (matched by name)
PlanRows ==
    {Row(<<"1", "2">>, <<"a", "b">>, start, end, split) :
        start \in {<<"4">>, <<"2", "0">>},
        end \in {<<"0", ":", "2", "0">>, <<"0", ":", "0", ":", "1", "0">>},
        split \in {NaN, <<"1", "5">>, <<"8", ".", "5">>}}

Adjustments == {0 - 6 * TicksPerSec, 0, 6 * TicksPerSec}

PlanSetups ==
    {Widgets(strategy, "wav", start_adjust, end_adjust, TRUE, "exists", f, sp) :
        strategy \in {"id_first", "name_only"},
        start_adjust \in Adjustments, end_adjust \in Adjustments,
        f \in BOOLEAN, sp \in BOOLEAN}

InitPlan ==
    /\ audio_files = <<File1, File2>>
    /\ excel_data \in {ExcelData(TRUE, <<row>>, "none") : row \in PlanRows}
                        \cup {ExcelData(TRUE, <<RowOk>>, "id")}
    /\ ui \in PlanSetups
    /\ start_btn = TRUE
    /\ stop_btn = FALSE
    /\ warning = ""
    /\ match_log = <<>>
    /\ process_worker = "none"
    /\ is_stopped = FALSE
    /\ pc = "idle"
    /\ audio_map = <<>>
    /\ idx = 0
    /\ local = NoLocal
    /\ result = NoResult
    /\ counts = [success |-> 0, failed |-> 0, cancelled |-> 0]
    /\ signals = <<>>
    /\ row_results = <<>>
    /\ stats = NoStats
    /\ log_error = FALSE
    /\ dir_exists = TRUE
    /\ disk = {}
    /\ exports = <<>>
    /\ calls = <<>>
    /\ faults = 0
    /\ stop_at = NoStop
    /\ first_run = NoRun
    /\ reruns = 0

SpecPlan == InitPlan /\ [][Next]_vars

\* the matcher's inputs: up to MaxFiles audio files whose stems share keys,
\* prefixes and substrings, and one row with any of the ids and names
MatchFiles ==
    {File1, File2, Path(<<"a", "b">>, "wav"), Path(<<"1", "2">>, "mp3"),
     Path(<<" ", "A", "b", "_", "1">>, "wav")}

MatchLists == UNION {[1..n -> MatchFiles] : n \in 1..MaxFiles}

MatchIds ==
    {NaN, <<"1", "2">>, <<"1", "2", ".", "0">>, <<"1", "2", ".", "5">>, <<"A", "B">>,
     <<"A", "b">>, <<"2">>, <<"a", "1", "2">>}

MatchNames == {NaN, <<"a", "b">>, <<" ", "A", "B", " ">>, <<"b">>, <<"b", "b">>}

MatchRows ==
    {Row(id, name, <<"4">>, <<"0", ":", "2", "0">>, NaN) :
        id \in MatchIds, name \in MatchNames}

Strategies == {"id_first", "name_only", "fuzzy"}

InitMatch ==
    /\ audio_files \in MatchLists
    /\ excel_data \in {ExcelData(TRUE, <<row>>, "none") : row \in MatchRows}
    /\ ui \in {Widgets(strategy, "wav", 0, 0, TRUE, "exists", TRUE, FALSE) :
                  strategy \in Strategies}
    /\ start_btn = TRUE
    /\ stop_btn = FALSE
    /\ warning = ""
    /\ match_log = <<>>
    /\ process_worker = "none"
    /\ is_stopped = FALSE
    /\ pc = "idle"
    /\ audio_map = <<>>
    /\ idx = 0
    /\ local = NoLocal
    /\ result = NoResult
    /\ counts = [success |-> 0, failed |-> 0, cancelled |-> 0]
    /\ signals = <<>>
    /\ row_results = <<>>
    /\ stats = NoStats
    /\ log_error = FALSE
    /\ dir_exists = TRUE
    /\ disk = {}
    /\ exports = <<>>
    /\ calls = <<>>
    /\ faults = MaxFaults
    /\ stop_at = NoStop
    /\ first_run = NoRun
    /\ reruns = 0

\* the batch up to the match of its row
NextMatch == StartProcessing \/ Begin \/ LoopHead \/ RowStart

SpecMatch == InitMatch /\ [][NextMatch]_vars

\* the worker thread runs until run() returns
FairSpec == Spec /\ WF_vars(Worker)

\* the parser's inputs: a missing cell, every text of up to MaxTimeLen of the
\* characters below, and the times the design names; the text is the split
\* cell of a row whose asset, start and end are good, so the parsed value is
\* what the row keeps as its split time
TimeChars == {"0", "9", ":", ".", " ", "-", "b"}

TimeTexts ==
    UNION {[1..n -> TimeChars] : n \in 0..MaxTimeLen}
    \cup {<<"9", "0", ".", "5">>, <<"1", ":", "3", "0">>, <<" ", "1", ":", "3", "0", " ">>,
          <<"0", ":", "0", "1", ":", "3", "0">>, <<"1", ":", "0", "0", ":", "0", "0", ".", "5">>,
          <<"1", ":", "3", "0", ".", "2", "5">>, <<"1", ":", "3", "0", ":">>,
          <<"1", ":", "2", ":", "3", ":", "4">>}

InitParse ==
    /\ audio_files = <<File1>>
    /\ excel_data \in
         {ExcelData(TRUE, <<Row(<<"1", "2">>, NaN, <<"4">>, <<"2", "0">>, cell)>>, "none") :
             cell \in {NaN} \cup TimeTexts}
    /\ ui = Widgets("id_first", "wav", 0, 0, TRUE, "exists", TRUE, TRUE)
    /\ start_btn = TRUE
    /\ stop_btn = FALSE
    /\ warning = ""
    /\ match_log = <<>>
    /\ process_worker = "none"
    /\ is_stopped = FALSE
    /\ pc = "idle"
    /\ audio_map = <<>>
    /\ idx = 0
    /\ local = NoLocal
    /\ result = NoResult
    /\ counts = [success |-> 0, failed |-> 0, cancelled |-> 0]
    /\ signals = <<>>
    /\ row_results = <<>>
    /\ stats = NoStats
    /\ log_error = FALSE
    /\ dir_exists = TRUE
    /\ disk = {}
    /\ exports = <<>>
    /\ calls = <<>>
    /\ faults = MaxFaults
    /\ stop_at = NoStop
    /\ first_run = NoRun
    /\ reruns = 0

\* the batch up to the parsed times of its row
SpecParse == InitParse /\ [][NextMatch]_vars

\* a batch of three rows over both assets: each row matches the asset of 30
\* seconds, the asset of 12 seconds, or none
RowOther == Row(<<"A", "B">>, NaN, <<"4">>, <<"0", ":", "1", "0">>, <<"8">>)

ThreeRows == [1..3 -> {RowOk, RowOther, RowNoMatch}]

InitThree ==
    /\ audio_files = <<File1, File2>>
    /\ excel_data \in {ExcelData(TRUE, t, "none") : t \in ThreeRows}
                        \cup {ExcelData(TRUE, <<RowOk, RowOther, RowNoMatch>>, "id")}
    /\ ui \in {Widgets("id_first", "wav", 0, 0, FALSE, "exists", f, sp) :
                  f \in BOOLEAN, sp \in BOOLEAN}
    /\ start_btn = TRUE
    /\ stop_btn = FALSE
    /\ warning = ""
    /\ match_log = <<>>
    /\ process_worker = "none"
    /\ is_stopped = FALSE
    /\ pc = "idle"
    /\ audio_map = <<>>
    /\ idx = 0
    /\ local = NoLocal
    /\ result = NoResult
    /\ counts = [success |-> 0, failed |-> 0, cancelled |-> 0]
    /\ signals = <<>>
    /\ row_results = <<>>
    /\ stats = NoStats
    /\ log_error = FALSE
    /\ dir_exists = TRUE
    /\ disk = OldFiles
    /\ exports = <<>>
    /\ calls = <<>>
    /\ faults = 0
    /\ stop_at = NoStop
    /\ first_run = NoRun
    /\ reruns = 0

SpecThree == InitThree /\ [][Next]_vars

\* ------------------------------------------------------------ check_matching
\* row.get(col, ''): the cell, or the empty text when the sheet has no such
\* column (lines 1043-1044)
GetOrEmpty(table, col, cell) == IF table.missing = col THEN <<>> ELSE cell

\* the prefix test of check_matching: the key starts with x followed by a
\* delimiter (lines 1068-1070, 1088-1090)
DelimitedPrefix(key_lower, x_lower) ==
    \/ startswith(key_lower, x_lower \o <<"-">>)
    \/ startswith(key_lower, x_lower \o <<"_">>)
    \/ startswith(key_lower, x_lower \o <<" ">>)

\* exact, lowercase, then delimited-prefix match of text x in check_matching
\* (lines 1058-1072, 1078-1092)
CheckCascade(x, map) ==
    IF DictHas(map, x) THEN DictGet(map, x)
    ELSE IF DictHas(map, lower(x)) THEN DictGet(map, lower(x))
    ELSE FirstPath(map,
                   {i \in 1..Len(map) : DelimitedPrefix(lower(map[i].key), lower(x))})

\* the path check_matching resolves one row to (lines 1042-1117)
check_matching_row(row, map, match_strategy, table) ==
    LET acc_id == GetOrEmpty(table, "id", row.id)
        song_name == GetOrEmpty(table, "name", row.name)
        byId == IF match_strategy \in {"id_first", "fuzzy"} /\ notna(acc_id)
                THEN CheckCascade(IdText(acc_id), map) ELSE NoPath
        byName == IF match_strategy \in {"name_only", "id_first", "fuzzy"}
                     /\ notna(song_name)
                  THEN CheckCascade(strip(song_name), map) ELSE NoPath
        fuzzyId == IF match_strategy = "fuzzy" /\ notna(acc_id)
                   THEN Fuzzy(FuzzyIdText(acc_id), map) ELSE NoPath
        fuzzyName == IF match_strategy = "fuzzy" /\ notna(song_name)
                     THEN Fuzzy(strip(song_name), map) ELSE NoPath
    IN  IF byId # NoPath THEN byId
        ELSE IF byName # NoPath THEN byName
        ELSE IF fuzzyId # NoPath THEN fuzzyId
        ELSE fuzzyName

\* ChorusCutterGUI.check_matching (lines 996-1157): the index is built from
\* audio_files as _build_audio_map builds it (lines 1029-1034), every row is
\* resolved and logged, and a warning box reports unmatched rows.  With two id
\* columns `if pd.notna(acc_id)` raises in the first row.
CheckMatching ==
    /\ IF audio_files = <<>>
       THEN warning' = "no_audio" /\ UNCHANGED match_log
       ELSE IF ~excel_data.loaded \/ Len(excel_data.rows) = 0
       THEN warning' = "no_table" /\ UNCHANGED match_log
       ELSE IF excel_data.dup = "id"
       THEN UNCHANGED <<warning, match_log>>
       ELSE LET map == _build_audio_map(audio_files)
                log == [i \in 1..Len(excel_data.rows) |->
                           check_matching_row(excel_data.rows[i], map,
                                              ui.match_strategy, excel_data)]
            IN  /\ match_log' = log
                /\ warning' = IF \E i \in 1..Len(log) : log[i] = NoPath
                              THEN "unmatched" ELSE warning
    /\ UNCHANGED <<inputs, start_btn, stop_btn, process_worker, is_stopped, pc, audio_map,
                   idx, rowvars, counts, outvars, fsvars, stop_at, runs>>

\* the preview and the batch on the same inputs: the lists and rows of the
\* matcher, on sheets with every column, sheets without the name column,
\* and an empty list, an empty sheet and a sheet with two id columns
CheckTables ==
    {ExcelData(TRUE, <<row>>, "none") : row \in MatchRows}
    \cup {Without("name", ExcelData(TRUE, <<row>>, "none")) :
             row \in {r \in MatchRows : r.name = NaN}}
    \cup {ExcelData(TRUE, <<>>, "none"), ExcelData(TRUE, <<RowOk>>, "id")}

InitCheck ==
    /\ audio_files \in MatchLists \cup {<<>>}
    /\ excel_data \in CheckTables
    /\ ui \in {Widgets(strategy, "wav", 0, 0, TRUE, "exists", TRUE, FALSE) :
                  strategy \in Strategies}
    /\ start_btn = TRUE
    /\ stop_btn = FALSE
    /\ warning = ""
    /\ match_log = <<>>
    /\ process_worker = "none"
    /\ is_stopped = FALSE
    /\ pc = "idle"
    /\ audio_map = <<>>
    /\ idx = 0
    /\ local = NoLocal
    /\ result = NoResult
    /\ counts = [success |-> 0, failed |-> 0, cancelled |-> 0]
    /\ signals = <<>>
    /\ row_results = <<>>
    /\ stats = NoStats
    /\ log_error = FALSE
    /\ dir_exists = TRUE
    /\ disk = {}
    /\ exports = <<>>
    /\ calls = <<>>
    /\ faults = MaxFaults
    /\ stop_at = NoStop
    /\ first_run = NoRun
    /\ reruns = 0

NextCheck == CheckMatching \/ StartProcessing \/ Begin \/ LoopHead \/ RowStart

SpecCheck == InitCheck /\ [][NextCheck]_vars

\* the steps of a row: tables of two rows, each row one that runs through, has
\* no split point, matches no asset, has a misordered window or a start that
\* does not parse, under id-first matching without adjustments and under
\* name-only matching with the start moved 6 seconds earlier
StepSetups ==
    {Widgets("id_first", "wav", 0, 0, FALSE, "exists", f, sp) :
        f \in BOOLEAN, sp \in BOOLEAN}
    \cup {Widgets("name_only", "mp3", 6 * TicksPerSec, 0, TRUE, "exists", f, sp) :
        f \in BOOLEAN, sp \in BOOLEAN}

InitSteps ==
    /\ audio_files = <<File1, File2>>
    /\ excel_data \in {ExcelData(TRUE, t, "none") : t \in [1..2 -> RowPool]}
                        \cup {ExcelData(TRUE, <<RowOk, RowNoMatch>>, "id")}
    /\ ui \in StepSetups
    /\ start_btn = TRUE
    /\ stop_btn = FALSE
    /\ warning = ""
    /\ match_log = <<>>
    /\ process_worker = "none"
    /\ is_stopped = FALSE
    /\ pc = "idle"
    /\ audio_map = <<>>
    /\ idx = 0
    /\ local = NoLocal
    /\ result = NoResult
    /\ counts = [success |-> 0, failed |-> 0, cancelled |-> 0]
    /\ signals = <<>>
    /\ row_results = <<>>
    /\ stats = NoStats
    /\ log_error = FALSE
    /\ dir_exists = TRUE
    /\ disk = OldFiles
    /\ exports = <<>>
    /\ calls = <<>>
    /\ faults = 0
    /\ stop_at = NoStop
    /\ first_run = NoRun
    /\ reruns = 0

SpecSteps == InitSteps /\ [][Next]_vars

\* ------------------------------------------------------------------ claims
rows == excel_data.rows

Outputs(r) == {r.output_full, r.output_part1, r.output_part2} \ {NoOut}

\* the positions of row i in the emitted RowResults and in the export calls
ResultsOf(i) == {j \in 1..Len(row_results) : row_results[j].idx = i}
ExportsOf(i) == {j \in 1..Len(exports) : exports[j].row = i}

\* the export calls made with the stop flag already set
LateExports == {j \in 1..Len(exports) : exports[j].stopped}

StatsEmitted == stats # NoStats

\* C1: at the completion of every run, cancelled or not, the emitted BatchStats
\* satisfies success + failed + cancelled = total.
C1_StatsAddUp ==
    StatsEmitted => stats.success + stats.failed + stats.cancelled = stats.total

\* C2: if the stop flag is set after row k has returned and before row k+1
\* starts, the run emits exactly k RowResults, BatchStats.cancelled is
\* total - k, and no file is exported for a row after row k.
C2_CancelBetweenRows ==
    (StatsEmitted /\ stop_at # NoStop /\ ~stop_at.in_row) =>
        /\ Len(row_results) = stop_at.returned
        /\ stats.cancelled = stats.total - stop_at.returned
        /\ \A j \in 1..Len(exports) : exports[j].row < stop_at.returned

\* C3 as stated: when BatchStats is emitted, every input row has exactly one
\* RowResult, in cancelled runs too.
C3_EveryRowOnce ==
    StatsEmitted => \A i \in 0..(total - 1) : Cardinality(ResultsOf(i)) = 1

\* C3 amended: no row ever has two RowResults, and when BatchStats is emitted
\* the rows with a RowResult are exactly the rows the batch loop entered: all
\* of them unless the loop broke on the stop flag.
C3_OncePerEnteredRow ==
    /\ \A i \in 0..(total - 1) : Cardinality(ResultsOf(i)) <= 1
    /\ StatsEmitted =>
         /\ \A i \in 0..(total - 1) :
               Cardinality(ResultsOf(i)) = IF i < idx THEN 1 ELSE 0
         /\ stats.cancelled = 0 => idx = total

C3_Witness ==
    /\ StatsEmitted
    /\ stats.cancelled = 1
    /\ total = 2
    /\ Cardinality(ResultsOf(0)) = 1
    /\ ResultsOf(1) = {}

\* C4: every emitted RowResult is Success exactly when at least one of its
\* outputs was produced, in cancelled runs too.
C4_SuccessIffOutput ==
    \A j \in 1..Len(row_results) :
        (row_results[j].result.status = "success")
            <=> (Outputs(row_results[j].result) # {})

\* C5: a failure while processing a row gives that row a Failed RowResult, the
\* batch goes on with the next row, and the run still emits BatchStats.
C5_FailureIsolated ==
    (pc = "ended" /\ ~is_stopped) =>
        /\ StatsEmitted
        /\ \A i \in 0..(total - 1) : Cardinality(ResultsOf(i)) = 1
        /\ \A j \in 1..Len(row_results) :
              Outputs(row_results[j].result) = {}
                  => row_results[j].result.status = "failed"

\* the last row that may still run once stop() was called
LastAllowed == IF stop_at.in_row THEN stop_at.idx ELSE stop_at.returned - 1

\* C6: once the stop flag is set no new row starts, and at most one further
\* segment is exported (the one already past its flag check).
C6_Cooperative ==
    stop_at # NoStop =>
        /\ pc \in InRow => idx <= LastAllowed
        /\ \A j \in 1..Len(row_results) : row_results[j].idx <= LastAllowed
        /\ \A j \in 1..Len(exports) : exports[j].row <= LastAllowed
        /\ Cardinality(LateExports) <= 1

C6_Witness ==
    /\ pc = "ended"
    /\ total = 2
    /\ stop_at # NoStop
    /\ stop_at.idx = 0
    /\ Cardinality(LateExports) = 1

\* C7: every started run ends having emitted the finished notification
\* exactly once, after all its RowResults.
C7_FinishedOnce ==
    pc = "ended" =>
        /\ Cardinality({p \in 1..Len(signals) : signals[p].sig = "finished"}) = 1
        /\ signals[Len(signals)].sig = "finished"

\* C8: row_updated(i) is followed by progress_updated(i+1, total) before any
\* other notification, and the rows notified are strictly increasing.
C8_Ordered ==
    \A p \in 1..Len(signals) :
        /\ signals[p].sig = "row_updated" =>
             IF p = Len(signals) THEN pc = "count"
             ELSE signals[p + 1] = Signal("progress_updated", signals[p].idx + 1, total)
        /\ signals[p].sig = "progress_updated" =>
             /\ p > 1
             /\ signals[p - 1] = Signal("row_updated", signals[p].idx - 1, total)
        /\ \A q \in 1..(p - 1) :
             (signals[p].sig = signals[q].sig) => signals[q].idx < signals[p].idx

C8_Witness ==
    /\ Len(signals) = 5
    /\ signals[3] = Signal("row_updated", 1, 2)
    /\ signals[5].sig = "finished"

\* C9: no run is started (no worker, no row processed, no file written) when
\* a configuration error holds, and in every other case the run starts.
ConfigError ==
    \/ audio_files = <<>>
    \/ ~excel_data.loaded
    \/ Len(excel_data.rows) = 0
    \/ ui.output_dir \in {"blank", "uncreatable"}
    \/ ~ui.mode_full /\ ~ui.mode_split

C9_BlockedOnConfigError ==
    IF ConfigError
    THEN /\ process_worker = "none" /\ pc = "idle"
         /\ row_results = <<>> /\ exports = <<>>
         /\ disk = IF ui.output_dir = "exists" THEN OldFiles ELSE {}
    ELSE warning = ""

C9_Witness ==
    /\ warning = "no_mode"
    /\ audio_files # <<>>
    /\ Len(excel_data.rows) > 0
    /\ process_worker = "none"

\* C10: with full and split export both requested and the split point missing
\* or not strictly inside the window, the full window is still cut and
\* exported, no part is produced, and the row is Success (for a row that is
\* not cancelled, whose asset decodes, whose window meets the audio and whose
\* write succeeds; without those the row has no output and is Failed).
C10_FullDespiteSplitError ==
    \A j \in 1..Len(row_results) :
        LET rr == row_results[j]
            r == rr.result
            d == derive_row(rows[rr.idx + 1], audio_map, ui, excel_data.dup = "time")
            written == {exports[k] : k \in ExportsOf(rr.idx)}
        IN  ( /\ ui.mode_full /\ ui.mode_split
              /\ d.go /\ split_error(d.local) # ""
              /\ r.status # "cancelled" /\ r.error # "load_failed" ) =>
                /\ r.output_part1 = NoOut /\ r.output_part2 = NoOut
                /\ r.status = "success" => r.error = split_error(d.local)
                /\ IF Truthy(cut_audio(AudioLen(r.input_path), d.local.start_time,
                                       d.local.end_time))
                   THEN /\ Cardinality(written) = 1
                        /\ \A e \in written :
                             /\ e.seg = "full"
                             /\ IF e.ok
                                THEN r.output_full = e.path /\ r.status = "success"
                                ELSE r.output_full = NoOut /\ r.status = "failed"
                   ELSE written = {} /\ r.status = "failed"

C10_Witness ==
    \E j \in 1..Len(row_results) :
        /\ ui.mode_full /\ ui.mode_split
        /\ row_results[j].result.error = "split_range"
        /\ row_results[j].result.output_full # NoOut
        /\ row_results[j].result.status = "success"

\* the positions of the cut_audio and load_audio calls in the call history
CutCalls == {k \in 1..Len(calls) : calls[k].op = "cut"}
LoadCalls == {k \in 1..Len(calls) : calls[k].op = "load"}

\* the window of a row as section 4.3 of the design derives it, in ticks
effectiveStart(row) == Max(0, parse_time(row.start).t - ui.start_adjust)
effectiveEnd(row) == parse_time(row.end).t + ui.end_adjust
parsedSplit(row) == parse_time(row.split).t

\* C11: every window handed to cut_audio starts at max(0, parsedStart -
\* startAdjust) for the full window and part 1, ends at parsedEnd + endAdjust
\* for the full window and part 2, and part 1 ends and part 2 starts at the
\* parsed split point, which no adjustment shifts.
C11_WindowDerivation ==
    \A k \in CutCalls :
        LET c == calls[k]
            row == rows[c.row + 1]
        IN  /\ c.seg \in {"full", "part1"} => c.start_time = effectiveStart(row)
            /\ c.seg \in {"full", "part2"} => c.end_time = effectiveEnd(row)
            /\ c.seg = "part1" => c.end_time = parsedSplit(row)
            /\ c.seg = "part2" => c.start_time = parsedSplit(row)

\* both parts of a row were cut under a start adjustment larger than the
\* row's start time and an end adjustment that is not zero
C11_Witness ==
    \E k1 \in CutCalls, k2 \in CutCalls :
        /\ calls[k1].seg = "part1" /\ calls[k2].seg = "part2"
        /\ calls[k1].row = calls[k2].row
        /\ calls[k1].end_time = calls[k2].start_time
        /\ calls[k1].start_time = 0
        /\ parse_time(rows[calls[k1].row + 1].start).t < ui.start_adjust
        /\ ui.end_adjust # 0

\* row i reaches the order check of its window (its times parse and the
\* matcher finds its asset in the index) with a window that is empty or
\* reversed
Misordered(i) ==
    LET parsedStart == parse_time(rows[i + 1].start)
        parsedEnd == parse_time(rows[i + 1].end)
    IN  /\ excel_data.dup = "none"
        /\ parsedStart.ok /\ parsedEnd.ok
        /\ Max(0, parsedStart.t - ui.start_adjust) >= parsedEnd.t + ui.end_adjust
        /\ _match_audio_file(rows[i + 1], audio_map, ui.match_strategy) # NoPath

\* C12: a row whose effective start is not before its effective end is
\* Failed with the time-order error; its asset is never loaded, and nothing
\* is cut or exported for it.
C12_TimeOrderError ==
    \A i \in 0..(total - 1) :
        Misordered(i) =>
            /\ \A k \in 1..Len(calls) : calls[k].row # i
            /\ ExportsOf(i) = {}
            /\ \A j \in ResultsOf(i) :
                  /\ row_results[j].result.status = "failed"
                  /\ row_results[j].result.error = "time_order"
                  /\ Outputs(row_results[j].result) = {}

\* the result of a row was emitted whose start and end differ as parsed and
\* are equal after the adjustments
C12_Witness ==
    \E j \in 1..Len(row_results) :
        /\ Misordered(row_results[j].idx)
        /\ parse_time(rows[row_results[j].idx + 1].start)
             # parse_time(rows[row_results[j].idx + 1].end)
        /\ effectiveStart(rows[row_results[j].idx + 1])
             = effectiveEnd(rows[row_results[j].idx + 1])
        /\ row_results[j].result.error = "time_order"

\* C13 as stated: cut_audio returns None whenever start_ms >= end_ms after
\* end_ms was clamped to the length of the audio, so also when the start lies
\* at or beyond the end of the audio; otherwise it returns the slice
\* [start_ms, min(end_ms, length)).
C13_CutNullWhenEmpty ==
    \A k \in CutCalls :
        LET c == calls[k]
            start_ms == Ms(c.start_time)
            end_ms == Min(Ms(c.end_time), c.len_ms)
        IN  c.ret = IF start_ms >= end_ms THEN NoSeg ELSE Seg(start_ms, end_ms)

\* the export_audio call a step makes, if it makes one
Exported == Len(exports') = Len(exports) + 1
LastExport == exports'[Len(exports')]

\* C14: with overwrite off, every export goes to name.ext when that path is
\* free and otherwise to name(n).ext for the smallest n >= 1 that is free, so
\* it never writes to a path that existed before the call.
C14_UniquePath ==
    [][(Exported /\ ~ui.overwrite) =>
          LET path == LastExport.path
          IN  /\ path.base = local.base_name
              /\ path.seg = LastExport.seg
              /\ path.ext = ui.export_format
              /\ path \notin disk
              /\ \A n \in 0..(path.n - 1) :
                    OutPath(path.base, path.seg, n, path.ext) \in disk]_vars

\* the same name was exported twice into a directory that did not hold it:
\* to name.ext, then to name(1).ext
C14_Witness ==
    \E j \in 1..Len(exports), k \in 1..Len(exports) :
        /\ ~ui.overwrite /\ j < k
        /\ exports[j].ok /\ exports[k].ok
        /\ exports[j].path.n = 0
        /\ exports[k].path = [exports[j].path EXCEPT !.n = 1]

\* a second batch ran to its end after a first one, neither was stopped
RanTwice ==
    /\ first_run.ended /\ ~first_run.stopped
    /\ StatsEmitted /\ ~is_stopped

\* the paths a run wrote
Written(written) == {written[j].path : j \in {k \in 1..Len(written) : written[k].ok}}

\* C15: with overwrite on, a second batch over the same rows, assets and
\* configuration emits the same RowResults and writes the same output paths
\* as the first, whatever the first left in the output directory.
C15_Idempotent ==
    (RanTwice /\ ui.overwrite) =>
        /\ row_results = first_run.row_results
        /\ Written(exports) = Written(first_run.exports)

\* the second batch wrote, over the files of the first, what the first wrote
C15_Witness ==
    /\ RanTwice /\ ui.overwrite
    /\ Written(exports) # {}
    /\ Written(first_run.exports) \subseteq disk
    /\ \E j \in 1..Len(row_results) : row_results[j].result.status = "failed"

\* the index is built
Indexed == pc \notin {"idle", "begin"}

\* the keys an asset is registered under: its stem, exact and trimmed lowercase
KeysOf(file_path) == {file_path.stem, lower(strip(file_path.stem))}

\* the last asset of the list registered under key k
LastOf(k) ==
    audio_files[CHOOSE i \in 1..Len(audio_files) :
                    /\ k \in KeysOf(audio_files[i])
                    /\ \A j \in (i + 1)..Len(audio_files) : k \notin KeysOf(audio_files[j])]

\* C16: the index holds, for every asset, its exact stem and its trimmed
\* lowercase stem, and nothing else; each key occurs once and maps to the
\* path of the last asset of the list registered under it.
C16_IndexLastWins ==
    Indexed =>
        /\ \A i \in 1..Len(audio_files) : \A k \in KeysOf(audio_files[i]) :
              \E j \in 1..Len(audio_map) : audio_map[j].key = k
        /\ \A j \in 1..Len(audio_map) :
              /\ \E i \in 1..Len(audio_files) : audio_map[j].key \in KeysOf(audio_files[i])
              /\ audio_map[j].path = LastOf(audio_map[j].key)
              /\ \A j2 \in 1..Len(audio_map) :
                    audio_map[j2].key = audio_map[j].key => j2 = j

\* two different assets share a key, and the index maps it to the later one
C16_Witness ==
    /\ Indexed
    /\ \E i \in 1..Len(audio_files), j \in 1..Len(audio_files) :
          /\ i < j /\ audio_files[i] # audio_files[j]
          /\ \E e \in 1..Len(audio_map) :
                /\ audio_map[e].key \in KeysOf(audio_files[i]) \cap KeysOf(audio_files[j])
                /\ audio_map[e].path = audio_files[j]

\* the row of the batch has been through the matcher
Resolved == pc \notin {"idle", "begin", "loop", "row", "raise"}

\* the row the matcher was given, and the path it returned
MatchedRow == rows[idx + 1]
Matched == result.input_path

\* the tiers of section 4.2 of the design over the index: the entries whose
\* key is x, whose key is x in lowercase, and whose lowercase key is x in
\* lowercase alone or followed by '-', '_' or a space
TierExact(x) == {j \in 1..Len(audio_map) : audio_map[j].key = x}
TierLower(x) == {j \in 1..Len(audio_map) : audio_map[j].key = lower(x)}
TierPrefix(x) ==
    {j \in 1..Len(audio_map) :
        \/ lower(audio_map[j].key) = lower(x)
        \/ \E c \in {"-", "_", " "} :
              startswith(lower(audio_map[j].key), lower(x) \o <<c>>)}

\* the entry of a tier that comes first in the index
FirstOf(tier) == audio_map[CHOOSE j \in tier : \A k \in tier : j <= k].path

\* the first tier that matches text x decides
Tiered(x) ==
    IF TierExact(x) # {} THEN FirstOf(TierExact(x))
    ELSE IF TierLower(x) # {} THEN FirstOf(TierLower(x))
    ELSE IF TierPrefix(x) # {} THEN FirstOf(TierPrefix(x))
    ELSE NoPath

\* the tiers over the row's id as the matcher compares it, and over its name
IdTiers == IF notna(MatchedRow.id) THEN Tiered(IdText(MatchedRow.id)) ELSE NoPath
NameTiers == IF notna(MatchedRow.name) THEN Tiered(strip(MatchedRow.name)) ELSE NoPath

\* C17: under the id-first strategy the matcher returns what the first
\* matching tier over the id gives (exact, lowercase, delimited prefix or
\* equal), and only if no id tier matches what the same tiers give over the
\* name; the name is not consulted when an id tier matches.
C17_IdFirst ==
    (Resolved /\ ui.match_strategy = "id_first") =>
        Matched = IF IdTiers # NoPath THEN IdTiers ELSE NameTiers

\* id 12 matched the stem 12-ab by its prefix tier alone, and the name of the
\* row would have resolved to another file
C17_Witness ==
    /\ Resolved /\ ui.match_strategy = "id_first"
    /\ notna(MatchedRow.id)
    /\ TierExact(IdText(MatchedRow.id)) = {}
    /\ TierLower(IdText(MatchedRow.id)) = {}
    /\ Matched = File1
    /\ NameTiers \notin {NoPath, File1}

\* C18: under the name-only strategy the path returned is what the tiers
\* over the row's name give in the index, so it is null for a row without a
\* name, and a row with the same name and any other id resolves to the same
\* path.
C18_NameOnly ==
    (Resolved /\ ui.match_strategy = "name_only") =>
        /\ Matched = NameTiers
        /\ ~notna(MatchedRow.name) => Matched = NoPath
        /\ \A id \in MatchIds :
              _match_audio_file([MatchedRow EXCEPT !.id = id], audio_map,
                                "name_only") = Matched

\* a row was resolved by its name although its id names another file
C18_Witness ==
    /\ Resolved /\ ui.match_strategy = "name_only"
    /\ Matched # NoPath
    /\ IdTiers \notin {NoPath, Matched}

\* the entries whose lowercase key holds x in lowercase, or is held by it
Substring(x) ==
    {j \in 1..Len(audio_map) :
        \/ contains(lower(audio_map[j].key), lower(x))
        \/ contains(lower(x), lower(audio_map[j].key))}

\* the substring search over the row's id as the matcher compares it there,
\* and over its name
IdSubstring ==
    IF notna(MatchedRow.id) THEN Substring(FuzzyIdText(MatchedRow.id)) ELSE {}
NameSubstring ==
    IF notna(MatchedRow.name) THEN Substring(strip(MatchedRow.name)) ELSE {}

\* C19: under the fuzzy strategy the substring search decides only when all
\* tiers over the id and all tiers over the name have failed; it runs over
\* the id first, then over the name, a key matching when it holds the text or
\* the text holds it, and the first matching key in the order of the index
\* wins.
C19_FuzzyLast ==
    (Resolved /\ ui.match_strategy = "fuzzy") =>
        Matched = IF IdTiers # NoPath THEN IdTiers
                  ELSE IF NameTiers # NoPath THEN NameTiers
                  ELSE IF IdSubstring # {} THEN FirstOf(IdSubstring)
                  ELSE IF NameSubstring # {} THEN FirstOf(NameSubstring)
                  ELSE NoPath

\* no tier matched; the id is a substring of two keys of different files, the
\* first of which was returned, and the name is a substring of the other only
C19_Witness ==
    /\ Resolved /\ ui.match_strategy = "fuzzy"
    /\ IdTiers = NoPath /\ NameTiers = NoPath
    /\ \E j \in IdSubstring : audio_map[j].path # Matched
    /\ Matched = FirstOf(IdSubstring)
    /\ NameSubstring # {} /\ FirstOf(NameSubstring) # Matched

\* the id text section 4.2 of the design compares: the integer text of a
\* numeral with a trailing ".0", the trimmed text of any other id
EndsInPointZero(t) ==
    /\ Len(t) > 2
    /\ SubSeq(t, Len(t) - 1, Len(t)) = <<".", "0">>
    /\ isdigit(Unsigned(SubSeq(t, 1, Len(t) - 2)))

NormalizedId(id) ==
    LET t == strip(id)
        numeral == SubSeq(t, 1, Len(t) - 2)
        n == DigitsVal(Unsigned(numeral))
    IN  IF EndsInPointZero(t)
        THEN IntToStr(IF numeral # Unsigned(numeral) THEN 0 - n ELSE n)
        ELSE t

\* the tiers and the substring search over the normalized id
NormalizedIdTiers ==
    IF notna(MatchedRow.id) THEN Tiered(NormalizedId(MatchedRow.id)) ELSE NoPath
NormalizedIdSubstring ==
    IF notna(MatchedRow.id) THEN Substring(NormalizedId(MatchedRow.id)) ELSE {}

\* C20 as stated: in every tier of every cascade an id ending in ".0" is
\* compared as its integer text and every other id as its trimmed text,
\* unchanged.
C20_OnlyTrailingZero ==
    Resolved =>
        Matched = IF ui.match_strategy = "name_only" THEN NameTiers
                  ELSE IF NormalizedIdTiers # NoPath THEN NormalizedIdTiers
                  ELSE IF NameTiers # NoPath THEN NameTiers
                  ELSE IF ui.match_strategy = "id_first" THEN NoPath
                  ELSE IF NormalizedIdSubstring # {} THEN FirstOf(NormalizedIdSubstring)
                  ELSE IF NameSubstring # {} THEN FirstOf(NameSubstring)
                  ELSE NoPath

\* the row of the batch has its parsed times
Parsed == pc = "full_check"
SplitCell == rows[idx + 1].split

\* the fields of a text between its colons
RECURSIVE Fields(_)
Fields(s) ==
    IF HasChar(s, ":") THEN <<Before(s, ":")>> \o Fields(After(s, ":")) ELSE <<s>>

\* a whole number, and seconds with an optional fraction
IsWhole(s) == s # <<>> /\ \A i \in 1..Len(s) : s[i] \in Digits
IsSeconds(s) ==
    \/ IsWhole(s)
    \/ \E i \in 2..(Len(s) - 1) :
          s[i] = "." /\ IsWhole(SubSeq(s, 1, i - 1)) /\ IsWhole(SubSeq(s, i + 1, Len(s)))

\* the value of seconds with an optional fraction, in ticks
SecondsValue(s) ==
    IF HasChar(s, ".")
    THEN DigitsVal(Before(s, ".")) * TicksPerSec + FracTicks(After(s, "."))
    ELSE DigitsVal(s) * TicksPerSec

\* what section 4.1 of the design returns for a cell
Expected(cell) ==
    LET t == IF notna(cell) THEN strip(cell) ELSE <<>>
        f == Fields(t)
    IN  IF t = <<>> THEN NoTime
        ELSE IF IsFloat(t) THEN Time(FloatTicks(t))
        ELSE IF Len(f) = 3 /\ IsWhole(f[1]) /\ IsWhole(f[2]) /\ IsSeconds(f[3])
        THEN Time((DigitsVal(f[1]) * 3600 + DigitsVal(f[2]) * 60) * TicksPerSec
                  + SecondsValue(f[3]))
        ELSE IF Len(f) = 2 /\ IsWhole(f[1]) /\ IsSeconds(f[2])
        THEN Time(DigitsVal(f[1]) * 60 * TicksPerSec + SecondsValue(f[2]))
        ELSE NoTime

Produced == {exports[k].row : k \in {j \in 1..Len(exports) : exports[j].ok}}

\* C22: when a run that was never asked to stop ends, BatchStats.success is
\* the number of rows for which at least one output was produced, failed is
\* the number of all other rows, and cancelled is 0.
C22_UncancelledStats ==
    (StatsEmitted /\ stop_at = NoStop) =>
        /\ stats.success = Cardinality(Produced)
        /\ stats.failed = total - Cardinality(Produced)
        /\ stats.cancelled = 0

\* three rows, two of which match the two assets and one of which matches
\* none: total 3, success 2, failed 1, cancelled 0
C22_Witness ==
    /\ StatsEmitted /\ stop_at = NoStop
    /\ stats = [total |-> 3, success |-> 2, failed |-> 1, cancelled |-> 0]
    /\ {row_results[j].result.input_path : j \in 1..Len(row_results)}
         = {File1, File2, NoPath}
    /\ \E j \in 1..Len(row_results) : row_results[j].result.error = "no_match"
    /\ ui.mode_full /\ ui.mode_split

\* the rows whose asset did not decode, and the rows with a failed write
DecodeFailed == {calls[k].row : k \in {j \in LoadCalls : calls[j].len_ms < 0}}
WriteFailed == {exports[k].row : k \in {j \in 1..Len(exports) : ~exports[j].ok}}

\* the rows that were loaded with both parts requested and a split point that
\* is missing or outside the window
SplitRefused ==
    {i \in {calls[k].row : k \in LoadCalls} \ DecodeFailed :
        /\ ui.mode_split
        /\ split_error(derive_row(rows[i + 1], audio_map, ui, FALSE).local) # ""}

\* C23 as stated: the RowResult emitted for a row, Success or Failed, has the
\* decode error when its asset did not decode, the split error when its parts
\* were refused for the split point, and a non-empty error when a write
\* failed.
C23_FailureRecorded ==
    \A j \in 1..Len(row_results) :
        LET i == row_results[j].idx
            r == row_results[j].result
        IN  r.status \in {"success", "failed"} =>
              /\ i \in DecodeFailed => r.error = "load_failed"
              /\ i \in WriteFailed => r.error # ""
              /\ i \in SplitRefused =>
                    r.error \in {"split_missing", "split_range"}

\* a step of the run in progress: every step but the one of start_processing
\* that builds the next worker
SameRun == start_btn => start_btn'

\* C24: within a run the emitted RowResults only grow at the end, every
\* emitted RowResult keeps its status, outputs and error through every later
\* step, and no row index is emitted twice.
C24_EmittedOnce ==
    [][SameRun =>
          /\ Len(row_results') >= Len(row_results)
          /\ SubSeq(row_results', 1, Len(row_results)) = row_results
          /\ \A j, k \in 1..Len(row_results') :
                row_results'[j].idx = row_results'[k].idx => j = k]_vars

C24_Witness ==
    /\ StatsEmitted /\ start_btn /\ process_worker = "worker"
    /\ Len(row_results) = 3
    /\ {row_results[j].result.status : j \in 1..3} = {"success", "failed"}

\* C25: the asset of a row is decoded at most once, and only for a row whose
\* asset the matcher found, whose start and end both parsed and whose
\* effective start is before its effective end; nothing is cut or written
\* for a row before its asset was decoded, so a row that fails at an earlier
\* step is neither decoded nor written.
C25_PipelineOrder ==
    /\ \A k \in 1..Len(calls) :
          LET c == calls[k]
              row == rows[c.row + 1]
              parsedStart == parse_time(row.start)
              parsedEnd == parse_time(row.end)
          IN  /\ c.op = "load" =>
                    /\ \A j \in LoadCalls : calls[j].row = c.row => j = k
                    /\ _match_audio_file(row, audio_map, ui.match_strategy) # NoPath
                    /\ parsedStart.ok /\ parsedEnd.ok
                    /\ Max(0, parsedStart.t - ui.start_adjust)
                          < parsedEnd.t + ui.end_adjust
              /\ c.op = "cut" =>
                    \E j \in 1..(k - 1) :
                        /\ calls[j].op = "load" /\ calls[j].row = c.row
                        /\ calls[j].len_ms >= 0
    /\ \A e \in 1..Len(exports) :
          \E j \in LoadCalls : calls[j].row = exports[e].row /\ calls[j].len_ms >= 0
    /\ \A j \in 1..Len(row_results) :
          row_results[j].result.error \in {"no_match", "time_parse", "time_order"} =>
              /\ \A k \in 1..Len(calls) : calls[k].row # row_results[j].idx
              /\ ExportsOf(row_results[j].idx) = {}

\* a run of two rows ended: the first failed at an earlier step and was never
\* decoded, the second was decoded once, cut and written
C25_Witness ==
    /\ StatsEmitted
    /\ Len(row_results) = 2
    /\ row_results[1].result.error \in {"no_match", "time_parse", "time_order"}
    /\ row_results[2].result.status = "success"
    /\ Cardinality(LoadCalls) = 1
    /\ ExportsOf(1) # {}

\* C26: every window handed to cut_audio, for the full segment, part 1 and
\* part 2, starts before it ends, whatever the parsed times, the split point
\* and the adjustments are.
C26_WindowOrdered ==
    \A k \in CutCalls : calls[k].start_time < calls[k].end_time

\* the full segment and both parts of a row were cut with the start delayed
\* by a negative adjustment, and the split point inside the moved window
C26_Witness ==
    \E k0 \in CutCalls, k1 \in CutCalls, k2 \in CutCalls :
        /\ calls[k0].seg = "full" /\ calls[k1].seg = "part1" /\ calls[k2].seg = "part2"
        /\ calls[k0].row = calls[k1].row /\ calls[k1].row = calls[k2].row
        /\ ui.start_adjust < 0
        /\ calls[k0].start_time > parse_time(rows[calls[k0].row + 1].start).t
        /\ calls[k1].end_time < calls[k0].end_time

\* the emitted RowResults with status Cancelled
CancelledResults ==
    {j \in 1..Len(row_results) : row_results[j].result.status = "cancelled"}

\* C27 as stated: in the statistics of a run, cancelled is at least the
\* number of RowResults emitted with status Cancelled, also when the row that
\* was interrupted is the last one.
C27_CancelledCounted ==
    StatsEmitted => stats.cancelled >= Cardinality(CancelledResults)

\* the last successful write to path p
LastWrite(p) ==
    LET ks == {k \in 1..Len(exports) : exports[k].path = p /\ exports[k].ok}
    IN  CHOOSE k \in ks : \A j \in ks : j <= k

\* C28 as stated: when a run ends, every output path recorded in a Success
\* RowResult holds what was written for that segment of that row: the last
\* write to the path is the export of that row, under either collision
\* policy and also when two rows carry the same id.
C28_OutputsKept ==
    StatsEmitted =>
        \A j \in 1..Len(row_results) :
            LET r == row_results[j].result
            IN  r.status = "success" =>
                  \A seg \in {"full", "part1", "part2"} :
                      r[OutField(seg)] # NoOut =>
                          /\ exports[LastWrite(r[OutField(seg)])].row = row_results[j].idx
                          /\ exports[LastWrite(r[OutField(seg)])].seg = seg

\* the preview has logged its paths and the batch has matched the same row
Previewed == Resolved /\ match_log # <<>>

\* C29 as stated: check_matching resolves every row to the path, or to no
\* match, that _match_audio_file resolves it to on the index built from the
\* same list, under every strategy.
C29_PreviewAgrees ==
    Previewed => match_log[idx + 1] = Matched

\* the path the matcher returns for the matched row under another strategy
Under(strategy) == _match_audio_file(MatchedRow, audio_map, strategy)

\* C30: the strategies are nested: a row that id-first resolves is resolved
\* by fuzzy to the same path, a row that name-only resolves is resolved by
\* id-first, and fuzzy finds nothing only where id-first finds nothing.
C30_StrategiesNested ==
    Resolved =>
        /\ (ui.match_strategy = "id_first" /\ Matched # NoPath) =>
              Under("fuzzy") = Matched
        /\ (ui.match_strategy = "name_only" /\ Matched # NoPath) =>
              Under("id_first") # NoPath
        /\ (ui.match_strategy = "fuzzy" /\ Matched = NoPath) =>
              Under("id_first") = NoPath

\* id-first resolved a row by its name, its id being in no key and at no
\* delimited prefix, while the substring search over the id alone finds
\* another asset
C30_Witness ==
    /\ Resolved /\ ui.match_strategy = "id_first"
    /\ Matched # NoPath
    /\ notna(MatchedRow.id)
    /\ Cascade(IdText(MatchedRow.id), audio_map) = NoPath
    /\ Fuzzy(FuzzyIdText(MatchedRow.id), audio_map) \notin {NoPath, Matched}

====
